---- MODULE Spec2Model ----
(***************************************************************************)
(* A model of src/app.py: the Streamlit to-do list.                        *)
(*                                                                         *)
(* The in-memory collection st.session_state.tasks, the persisted file     *)
(* tasks.json, the wall clock read by datetime.now(), and one action per   *)
(* handler of the script.  A text is a sequence of one-character strings;  *)
(* an instant of the clock is a natural number (it stands both for the     *)
(* float of .timestamp() and for the string of .isoformat()); Python's     *)
(* None in completed_at is the empty tuple and a completion stamp t is     *)
(* <<t>>.  A JSON document is a sequence of objects whose values carry     *)
(* their JSON type.                                                        *)
(***************************************************************************)
EXTENDS Integers, Sequences, FiniteSets, TLC

VARIABLES
    tasks,      \* st.session_state.tasks: a sequence of task dicts
    file,       \* tasks.json: [kind |-> "absent" | "malformed" | "json", doc |-> ...]
    now,        \* the last instant datetime.now() returned
    ui,         \* what the last handler showed: "none" | "st.error" | "exception"
    view,       \* sorted_tasks, the display order computed on a rerun
    last,       \* history: the last handler run and the collection before it
    assigned,   \* history: every id some record of the collection has had
    missed      \* the saves in a row that failed at open(), leaving the file as it was

vars == <<tasks, file, now, ui, view, last, assigned, missed>>

\* Bounds of the model.
MaxTasks == 2
MaxTime == 6
MaxSortLen == 3
MaxMissed == 1

----------------------------------------------------------------------------
(* Texts *)

Code(c) ==
    CASE c = " " -> 32
      [] c = "A" -> 65
      [] c = "B" -> 66
      [] c = "a" -> 97
      [] c = "b" -> 98

LowerChar(c) ==
    CASE c = "A" -> "a"
      [] c = "B" -> "b"
      [] OTHER -> c

\* str.lower()
lower(s) == [i \in 1..Len(s) |-> LowerChar(s[i])]

RECURSIVE lstrip(_)
lstrip(s) ==
    IF s # <<>> /\ Head(s) = " " THEN lstrip(Tail(s)) ELSE s

RECURSIVE rstrip(_)
rstrip(s) ==
    IF s # <<>> /\ s[Len(s)] = " " THEN rstrip(SubSeq(s, 1, Len(s) - 1)) ELSE s

\* str.strip()
strip(s) == rstrip(lstrip(s))

\* Python's < on str: lexicographic by code point, a proper prefix first.
RECURSIVE StrLess(_, _)
StrLess(s, t) ==
    IF t = <<>> THEN FALSE
    ELSE IF s = <<>> THEN TRUE
    ELSE IF Code(Head(s)) # Code(Head(t)) THEN Code(Head(s)) < Code(Head(t))
    ELSE StrLess(Tail(s), Tail(t))

----------------------------------------------------------------------------
(* The clock and the task record *)

\* datetime.now(): each read returns a later instant than the read before it.
Tick(t) == t + 1

None == <<>>

create_task(text, priority, t) ==
    [id |-> Tick(t),
     task |-> text,
     done |-> FALSE,
     priority |-> priority,
     created_at |-> Tick(Tick(t)),
     completed_at |-> None]

IdsOf(ts) == {ts[i].id : i \in 1..Len(ts)}

----------------------------------------------------------------------------
(* JSON *)

JString(v) == [json |-> "string", v |-> v]
JNumber(n) == [json |-> "number", v |-> n]
JNull == [json |-> "null"]
JBool(b) == [json |-> IF b THEN "true" ELSE "false"]

\* json.dump that writes null for every completed_at.
json_dump_task_null_stamp(r) ==
    [id |-> JNumber(r.id),
     task |-> JString(r.task),
     done |-> JBool(r.done),
     priority |-> JString(r.priority),
     created_at |-> JString(r.created_at),
     completed_at |-> JNull]

\* json.dump of one task dict.
json_dump_task(r) ==
    [id |-> JNumber(r.id),
     task |-> JString(r.task),
     done |-> JBool(r.done),
     priority |-> JString(r.priority),
     created_at |-> JString(r.created_at),
     completed_at |-> IF r.completed_at = None THEN JNull
                      ELSE JString(r.completed_at[1])]

\* json.dump(tasks, f, indent=2, ensure_ascii=False): the whole list, in order.
json_dump(ts) == [i \in 1..Len(ts) |-> json_dump_task(ts[i])]

\* The Python value json.load gives for the JSON value jv under key k.
PyValue(k, jv) ==
    CASE jv.json = "true" -> TRUE
      [] jv.json = "false" -> FALSE
      [] jv.json = "null" -> None
      [] jv.json = "number" -> jv.v
      [] jv.json = "string" -> IF k = "completed_at" THEN <<jv.v>> ELSE jv.v

\* json.load: a list of dicts with the keys the document has.
json_load(doc) ==
    [i \in 1..Len(doc) |-> [k \in DOMAIN doc[i] |-> PyValue(k, doc[i][k])]]

----------------------------------------------------------------------------
(* load_tasks and save_tasks *)

\* The backward-compatibility loop of load_tasks over the dicts ds, the clock at t.
RECURSIVE backfill(_, _)
backfill(ds, t) ==
    IF ds = <<>> THEN [tasks |-> <<>>, now |-> t]
    ELSE LET d == Head(ds)
             t1 == IF "id" \in DOMAIN d THEN t ELSE Tick(t)
             t2 == IF "created_at" \in DOMAIN d THEN t1 ELSE Tick(t1)
             r == [id |-> IF "id" \in DOMAIN d THEN d.id ELSE t1,
                   task |-> d.task,
                   done |-> d.done,
                   priority |-> IF "priority" \in DOMAIN d THEN d.priority ELSE "Medium",
                   created_at |-> IF "created_at" \in DOMAIN d THEN d.created_at ELSE t2,
                   completed_at |-> IF "completed_at" \in DOMAIN d THEN d.completed_at
                                    ELSE None]
             rest == backfill(Tail(ds), t2)
         IN [tasks |-> <<r>> \o rest.tasks, now |-> rest.now]

\* load_tasks(): [] when the file is missing or does not parse.
load_tasks(f, t) ==
    IF f.kind = "json" THEN backfill(json_load(f.doc), t)
    ELSE [tasks |-> <<>>, now |-> t]

\* What open()/json.dump can do: succeed, fail at open (the file is untouched), or
\* fail while writing (the file is left truncated).
SaveOutcomes == {"ok", "open_failed", "write_failed"}

\* save_tasks opening the file with "a": the document is added to what the file held.
save_tasks_append(ts, f, io) ==
    CASE io = "ok" -> [kind |-> "json", doc |-> f.doc \o json_dump(ts)]
      [] io = "open_failed" -> f
      [] io = "write_failed" -> [kind |-> "malformed", doc |-> <<>>]

\* save_tasks: the file after it.
save_tasks(ts, f, io) ==
    CASE io = "ok" -> [kind |-> "json", doc |-> json_dump(ts)]
      [] io = "open_failed" -> f
      [] io = "write_failed" -> [kind |-> "malformed", doc |-> <<>>]

\* save_tasks without its try/except: the exception reaches Streamlit.
save_report_uncaught(io) == IF io = "ok" THEN "none" ELSE "exception"

\* save_tasks: except Exception -> st.error(...), nothing is raised.
save_report(io) == IF io = "ok" THEN "none" ELSE "st.error"

----------------------------------------------------------------------------
(* The operations on the collection *)

\* The index of the first record with this id, 0 when there is none.
FirstIndex(ts, task_id) ==
    IF \E i \in 1..Len(ts) : ts[i].id = task_id
    THEN CHOOSE i \in 1..Len(ts) :
            /\ ts[i].id = task_id
            /\ \A j \in 1..(i - 1) : ts[j].id # task_id
    ELSE 0

\* toggle_task_completion with task["done"] = True in place of not task["done"].
toggle_task_completion_sets_done(ts, task_id, t) ==
    LET i == FirstIndex(ts, task_id) IN
    IF i = 0 THEN [tasks |-> ts, now |-> t]
    ELSE [tasks |-> [ts EXCEPT ![i].done = TRUE, ![i].completed_at = <<Tick(t)>>],
          now |-> Tick(t)]

\* The loop of toggle_task_completion; t is the clock before it.
toggle_task_completion(ts, task_id, t) ==
    LET i == FirstIndex(ts, task_id) IN
    IF i = 0 THEN [tasks |-> ts, now |-> t]
    ELSE IF ~ts[i].done
         THEN [tasks |-> [ts EXCEPT ![i].done = TRUE, ![i].completed_at = <<Tick(t)>>],
               now |-> Tick(t)]
         ELSE [tasks |-> [ts EXCEPT ![i].done = FALSE, ![i].completed_at = None],
               now |-> t]

\* The list comprehension of delete_task.
delete_task(ts, task_id) ==
    LET keep(r) == r.id # task_id IN SelectSeq(ts, keep)

\* edit_task with its two assignments after the loop: they reach the last record the
\* loop visited.
edit_task_after_loop(ts, task_id, new_text, new_priority) ==
    LET i == IF FirstIndex(ts, task_id) = 0 THEN Len(ts) ELSE FirstIndex(ts, task_id) IN
    IF i = 0 THEN ts
    ELSE [ts EXCEPT ![i].task = new_text, ![i].priority = new_priority]

\* The loop of edit_task.
edit_task(ts, task_id, new_text, new_priority) ==
    LET i == FirstIndex(ts, task_id) IN
    IF i = 0 THEN ts
    ELSE [ts EXCEPT ![i].task = new_text, ![i].priority = new_priority]

\* The list comprehension of "Clear Completed".
clear_completed(ts) ==
    LET keep(r) == ~r.done IN SelectSeq(ts, keep)

\* st.session_state.tasks.extend(imported_tasks)
import_batch(ts, imported) == ts \o imported

----------------------------------------------------------------------------
(* Display: filter and sort *)

PriorityOrder(p) ==
    CASE p = "High" -> 0
      [] p = "Medium" -> 1
      [] p = "Low" -> 2
      [] OTHER -> 1

DoneOrder(x) == IF x.done THEN 1 ELSE 0

\* The key without its first component, x["done"].
KeyLess_without_done(x, y, sort_by) ==
    CASE sort_by = "Priority" -> PriorityOrder(x.priority) < PriorityOrder(y.priority)
      [] sort_by = "Created Date" -> x.created_at < y.created_at
      [] sort_by = "Alphabetical" -> StrLess(lower(x.task), lower(y.task))

\* Python's < on the key tuples of sort_tasks: (x["done"], <second component>).
KeyLess(x, y, sort_by) ==
    \/ DoneOrder(x) < DoneOrder(y)
    \/ /\ DoneOrder(x) = DoneOrder(y)
       /\ CASE sort_by = "Priority" -> PriorityOrder(x.priority) < PriorityOrder(y.priority)
            [] sort_by = "Created Date" -> x.created_at < y.created_at
            [] sort_by = "Alphabetical" -> StrLess(lower(x.task), lower(y.task))

\* x put into the ordered list s after every element that is not greater than it.
RECURSIVE Insert(_, _, _)
Insert(s, x, sort_by) ==
    IF s = <<>> THEN <<x>>
    ELSE IF KeyLess(x, Head(s), sort_by) THEN <<x>> \o s
    ELSE <<Head(s)>> \o Insert(Tail(s), x, sort_by)

\* sorted(tasks, key=...): a stable sort.
RECURSIVE sorted(_, _)
sorted(ts, sort_by) ==
    IF ts = <<>> THEN <<>>
    ELSE Insert(sorted(SubSeq(ts, 1, Len(ts) - 1), sort_by), ts[Len(ts)], sort_by)

SortOptions == {"Priority", "Created Date", "Alphabetical"}

sort_tasks(ts, sort_by) ==
    IF sort_by \in SortOptions THEN sorted(ts, sort_by) ELSE ts

\* filtered_tasks
filter_tasks(ts, show_completed) ==
    IF show_completed THEN ts ELSE clear_completed(ts)

----------------------------------------------------------------------------
(* Inputs *)

\* The options of the priority selectboxes.
Priorities == {"High", "Medium", "Low"}

\* What the user submits in the add form: the text typed and the priority selected.
AddInputs ==
    {<<<<>>, "Medium">>, <<<<" ">>, "High">>, <<<<" ", "a">>, "Medium">>, <<<<"B">>, "Low">>}

\* What the user saves in edit mode: the text left in the input and the priority selected.
EditInputs == {<<<<>>, "Low">>, <<<<"b">>, "High">>}

\* The ids a caller passes: those of the records, and one no record has (no stamp
\* is 0, and every id is compared for equality only).
IdArgs == IdsOf(tasks) \cup {0}

\* The instants before the session: the ones the stamps of a file can be.
Past == {1, 2, 3}

LastOf(S) == CHOOSE t \in S : \A u \in S : u <= t

\* tasks.json as the session finds it: missing, not JSON, written by versions of the
\* program that kept fewer keys, or holding a priority of another vocabulary.
InitialFiles ==
    {[kind |-> "absent", doc |-> <<>>],
     [kind |-> "malformed", doc |-> <<>>],
     [kind |-> "json",
      doc |-> <<[task |-> JString(<<"a">>), done |-> JBool(TRUE)],
                [id |-> JNumber(1), task |-> JString(<<"A">>), done |-> JBool(FALSE),
                 created_at |-> JString(1)]>>],
     [kind |-> "json",
      doc |-> <<[id |-> JNumber(1), task |-> JString(<<"b">>), done |-> JBool(FALSE),
                 priority |-> JString("Urgent"), created_at |-> JString(1),
                 completed_at |-> JNull]>>]}

\* The uploaded documents: exports of this program's records.
ImportObject(id, text, done, completed) ==
    [id |-> JNumber(id), task |-> JString(text), done |-> JBool(done),
     priority |-> JString("High"), created_at |-> JString(1), completed_at |-> completed]

ImportFiles ==
    {<<ImportObject(1, <<"a">>, FALSE, JNull)>>,
     <<ImportObject(3, <<"a">>, TRUE, JNull)>>,
     <<ImportObject(1, <<"a">>, FALSE, JNull), ImportObject(2, <<"b">>, TRUE, JString(2))>>}

----------------------------------------------------------------------------
(* The handlers *)

Mutating == {"add", "toggle", "edit", "delete", "clear_completed", "import"}

NoView == [key |-> "", show |-> TRUE, input |-> <<>>, out |-> <<>>]

\* The history entry of a handler: its name, what its save did and whether a record
\* had the id it was given; for a toggle also that id, the collection before it, and
\* whether the handler before it was a toggle of the same id; for a load what the save
\* of the handler before it did.
Entry(op, id, io) ==
    [op |-> op, save |-> io,
     hit |-> id \in IdsOf(tasks),
     id |-> IF op = "toggle" THEN id ELSE 0,
     again |-> op = "toggle" /\ last.op = "toggle" /\ last.id = id,
     follows |-> IF op = "load" THEN last.save ELSE "none",
     before |-> IF op = "toggle" THEN tasks ELSE <<>>]

NoEntry ==
    [op |-> "start", save |-> "none", hit |-> FALSE, id |-> 0, again |-> FALSE,
     follows |-> "none", before |-> <<>>]

\* What every handler does around its own change: the save, its message, the history.
Handler(e, ts, t) ==
    /\ t <= MaxTime
    /\ tasks' = ts
    /\ now' = t
    /\ file' = IF e.op \in Mutating THEN save_tasks(ts, file, e.save) ELSE file
    /\ ui' = IF e.op \in Mutating THEN save_report(e.save) ELSE "none"
    /\ last' = e
    /\ assigned' = assigned \cup IdsOf(ts)
    /\ missed' = IF e.op \notin Mutating THEN missed
                 ELSE IF e.save = "open_failed" THEN missed + 1 ELSE 0
    /\ missed' <= MaxMissed
    /\ view' = view

Started == last.op # "start"

\* A new session: st.session_state.tasks = load_tasks()
Load ==
    LET r == load_tasks(file, now) IN
    Handler(Entry("load", 0, "none"), r.tasks, r.now)

\* The add form, submitted.
Add(new_task, priority, io) ==
    /\ Started
    /\ strip(new_task) # <<>>
    /\ Len(tasks) < MaxTasks
    /\ Handler(Entry("add", 0, io),
               Append(tasks, create_task(strip(new_task), priority, now)),
               Tick(Tick(now)))

Toggle(task_id, io) ==
    /\ Started
    /\ LET r == toggle_task_completion(tasks, task_id, now) IN
       Handler(Entry("toggle", task_id, io), r.tasks, r.now)

Delete(task_id, io) ==
    /\ Started
    /\ Handler(Entry("delete", task_id, io), delete_task(tasks, task_id), now)

Edit(task_id, new_text, new_priority, io) ==
    /\ Started
    /\ Handler(Entry("edit", task_id, io),
               edit_task(tasks, task_id, new_text, new_priority), now)

\* The "Clear Completed" button, shown when completed_tasks > 0.
ClearCompleted(io) ==
    /\ Started
    /\ \E i \in 1..Len(tasks) : tasks[i].done
    /\ Handler(Entry("clear_completed", 0, io), clear_completed(tasks), now)

\* "Confirm Import" on an uploaded document.
Import(doc, io) ==
    /\ Started
    /\ Len(tasks) + Len(doc) <= MaxTasks
    /\ Handler(Entry("import", 0, io), import_batch(tasks, json_load(doc)), now)

Init ==
    /\ tasks = <<>>
    /\ file \in InitialFiles
    /\ now = LastOf(Past)
    /\ ui = "none"
    /\ view = NoView
    /\ last = NoEntry
    /\ assigned = {}
    /\ missed = 0

Next ==
    \/ Load
    \/ \E x \in AddInputs, io \in SaveOutcomes : Add(x[1], x[2], io)
    \/ \E i \in IdArgs, io \in SaveOutcomes : Toggle(i, io)
    \/ \E i \in IdArgs, io \in SaveOutcomes : Delete(i, io)
    \/ \E i \in IdArgs, x \in EditInputs, io \in SaveOutcomes : Edit(i, x[1], x[2], io)
    \/ \E io \in SaveOutcomes : ClearCompleted(io)
    \/ \E d \in ImportFiles, io \in SaveOutcomes : Import(d, io)

Spec == Init /\ [][Next]_vars

----------------------------------------------------------------------------
(* The display, on its own: a collection as the program can hold it, rendered under *)
(* every sort option and both settings of "Show completed tasks".                  *)

SortKinds ==
    {[done |-> d, priority |-> k[1], created_at |-> k[2], task |-> k[3]] :
        d \in BOOLEAN,
        k \in {<<"High", 2, <<"b">>>>, <<"Medium", 1, <<"B">>>>, <<"Low", 1, <<"a">>>>,
               <<"Medium", 2, <<"A", "b">>>>, <<"Urgent", 3, <<"a", "B">>>>}}

SortRecord(i, k) ==
    [id |-> i, task |-> k.task, done |-> k.done, priority |-> k.priority,
     created_at |-> k.created_at,
     completed_at |-> IF k.done THEN <<k.created_at>> ELSE None]

SortInputs ==
    UNION {{[i \in 1..n |-> SortRecord(i, ks[i])] : ks \in [1..n -> SortKinds]} :
              n \in 0..MaxSortLen}

\* The "Your Tasks" section of a rerun: filter, then sort.
Render(sort_option, show_completed) ==
    /\ view' = [key |-> sort_option, show |-> show_completed,
                input |-> filter_tasks(tasks, show_completed),
                out |-> sort_tasks(filter_tasks(tasks, show_completed), sort_option)]
    /\ UNCHANGED <<tasks, file, now, ui, last, assigned, missed>>

InitSort ==
    /\ tasks \in SortInputs
    /\ file = [kind |-> "absent", doc |-> <<>>]
    /\ now = 0
    /\ ui = "none"
    /\ view = NoView
    /\ last = NoEntry
    /\ assigned = {}
    /\ missed = 0

NextSort == \E k \in SortOptions, show \in BOOLEAN : Render(k, show)

SortSpec == InitSort /\ [][NextSort]_vars

----------------------------------------------------------------------------
(* Claims *)

Rendered == view.key \in SortOptions

\* The order the sort key asks for, stated on its own: High before Medium before Low
\* (it says nothing of another priority), an earlier created_at first, the smaller
\* text first when case is ignored.
Comparable(x, y, key) ==
    key = "Priority" => (x.priority \in Priorities /\ y.priority \in Priorities)

Rank(p) == CASE p = "High" -> 1 [] p = "Medium" -> 2 [] p = "Low" -> 3

Before(x, y, key) ==
    CASE key = "Priority" -> Rank(x.priority) < Rank(y.priority)
      [] key = "Created Date" -> x.created_at < y.created_at
      [] key = "Alphabetical" -> StrLess(lower(x.task), lower(y.task))

\* Where the record with this id stands in the sequence.
PositionIn(ts, id) == CHOOSE i \in 1..Len(ts) : ts[i].id = id

\* C8: for each sort key, sort returns a permutation of its input in which every record
\* that is not done comes before every record that is done; within each group the
\* records are in the order of the key, and records that tie on the key keep their
\* input order.
C8_SortGroupsOrdersAndIsStable ==
    Rendered =>
        LET in == view.input
            out == view.out
        IN /\ Len(out) = Len(in)
           /\ \A i \in 1..Len(in) : \E j \in 1..Len(out) : out[j] = in[i]
           /\ \A i, j \in 1..Len(out) :
                i < j =>
                    /\ ~(out[i].done /\ ~out[j].done)
                    /\ (out[i].done = out[j].done /\ Comparable(out[i], out[j], view.key)) =>
                          /\ ~Before(out[j], out[i], view.key)
                          /\ ~Before(out[i], out[j], view.key) =>
                                PositionIn(in, out[i].id) < PositionIn(in, out[j].id)

\* A display sorted alphabetically that moved a record, holds done and open records,
\* and holds two open records whose texts differ in case only.
C8_Witness ==
    /\ view.key = "Alphabetical"
    /\ view.out # view.input
    /\ \E i, j \in 1..Len(view.out) :
          /\ i < j
          /\ ~view.out[i].done /\ ~view.out[j].done
          /\ view.out[i].task # view.out[j].task
          /\ lower(view.out[i].task) = lower(view.out[j].task)
    /\ \E i \in 1..Len(view.out) : view.out[i].done

Failed == {"open_failed", "write_failed"}

\* C1: in every reachable state every record has done = TRUE iff its completed_at is
\* present.
C1_DoneIffCompletedAt ==
    \A i \in 1..Len(tasks) : tasks[i].done <=> (tasks[i].completed_at # None)

UniqueIds ==
    \A i, j \in 1..Len(tasks) : i # j => tasks[i].id # tasks[j].id

\* C2: in every reachable state no two records have the same id, and a record that add
\* or import puts into the collection never gets an id some record has had.
C2_IdsUniqueNeverReused ==
    /\ [](UniqueIds)
    /\ [][last'.op \in {"add", "import"} =>
            \A j \in (Len(tasks) + 1)..Len(tasks') : tasks'[j].id \notin assigned]_vars

\* C3: after every mutating handler whose save succeeded, the file is a JSON document
\* of exactly the records of the collection, in its order, and nothing else.
C3_FileHoldsCollection ==
    (last.op \in Mutating /\ last.save = "ok") =>
        /\ file.kind = "json"
        /\ Len(file.doc) = Len(tasks)
        /\ \A i \in 1..Len(tasks) : json_load(file.doc)[i] = tasks[i]

\* A delete that removed a record and left one, saved over a file that held more.
C3_Witness ==
    /\ last.op = "delete"
    /\ last.hit
    /\ last.save = "ok"
    /\ Len(tasks) = 1
    /\ file.doc = json_dump(tasks)

\* The record toggle(id) acts on.
Target(ts, id) == ts[FirstIndex(ts, id)]

SecondToggle == last'.op = "toggle" /\ last'.again

WellFormed(ts) ==
    \A i \in 1..Len(ts) : ts[i].done <=> (ts[i].completed_at # None)

\* C4, as claimed: toggle(id) twice in a row returns the record to its original done and
\* its original completed_at, and leaves every other record unchanged.  (On the second
\* of two toggles of one id, last.before is the collection before the first.  The claim
\* is stated of the collections whose records have done iff completed_at is present, so
\* that what refutes it is not a record that was loaded done without its stamp.)
C4_ToggleTwiceRestores ==
    [][(SecondToggle /\ WellFormed(last.before)) =>
          /\ Len(tasks') = Len(last.before)
          /\ \A k \in 1..Len(tasks') :
                /\ tasks'[k].done = last.before[k].done
                /\ tasks'[k].completed_at = last.before[k].completed_at
                /\ k # FirstIndex(last.before, last'.id) => tasks'[k] = last.before[k]]_vars

\* C4, amended: toggle(id) twice in a row returns the record to its original done and
\* leaves every other record and every other field unchanged; its completed_at is
\* then absent if it is not done, and the instant of the second toggle if it is done.
C4_ToggleTwiceRestoresDone ==
    [][SecondToggle =>
          /\ Len(tasks') = Len(last.before)
          /\ \A k \in 1..Len(tasks') :
                IF last'.hit /\ k = FirstIndex(last.before, last'.id)
                THEN /\ tasks'[k].done = last.before[k].done
                     /\ tasks'[k] = [last.before[k] EXCEPT
                                        !.completed_at = IF last.before[k].done
                                                         THEN <<now'>> ELSE None]
                ELSE tasks'[k] = last.before[k]]_vars

\* A record of a collection of two, done before and done again after two toggles.
C4_Witness ==
    /\ last.op = "toggle"
    /\ last.again
    /\ last.hit
    /\ Len(tasks) = 2
    /\ Target(tasks, last.id).done
    /\ Target(tasks, last.id).completed_at = <<now>>

LoadAfterSave == last'.op = "load" /\ last.op \in Mutating

C6_UnknownIdIsNoOp ==
    [][(last'.op \in {"toggle", "edit", "delete"} /\ ~last'.hit) =>
          /\ tasks' = tasks
          /\ ui' # "exception"
          /\ last'.save = "ok" => ui' = "none"]_vars

\* An edit with an id no record of a collection of two has.
C6_Witness ==
    /\ last.op = "edit"
    /\ ~last.hit
    /\ Len(tasks) = 2

\* What a handler can leave in the collection: the result of its mutation, for the
\* inputs it can be given (for a toggle, the id the history holds).
Results(e) ==
    CASE e.op = "add" ->
            {Append(tasks, create_task(strip(x[1]), x[2], now)) :
                x \in {y \in AddInputs : strip(y[1]) # <<>>}}
      [] e.op = "toggle" -> {toggle_task_completion(tasks, e.id, now).tasks}
      [] e.op = "delete" ->
            {delete_task(tasks, i) : i \in {j \in IdArgs : j \in IdsOf(tasks) <=> e.hit}}
      [] e.op = "edit" ->
            {edit_task(tasks, i, x[1], x[2]) :
                i \in {j \in IdArgs : j \in IdsOf(tasks) <=> e.hit}, x \in EditInputs}
      [] e.op = "clear_completed" -> {clear_completed(tasks)}
      [] e.op = "import" -> {import_batch(tasks, json_load(d)) : d \in ImportFiles}

\* C7: when the save of a mutating handler fails, the error is shown with st.error
\* and nothing is raised, the collection holds the result of the mutation, and the
\* handlers stay enabled (a toggle as long as the clock of the model has an instant left).
C7_SaveFailureIsAbsorbed ==
    /\ [][(last'.op \in Mutating /\ last'.save \in Failed) =>
            /\ ui' = "st.error"
            /\ tasks' \in Results(last')]_vars
    /\ []((last.op \in Mutating /\ last.save \in Failed) =>
            \A i \in IdArgs :
                /\ ENABLED Delete(i, "ok")
                /\ now < MaxTime => ENABLED Toggle(i, "ok"))

\* A toggle that changed a record in memory, its save failing at open(), while the
\* file is still the truncated one an earlier failed save left.
C7_Witness ==
    /\ last.op = "toggle"
    /\ last.hit
    /\ last.save = "open_failed"
    /\ ui = "st.error"
    /\ tasks # last.before
    /\ file.kind = "malformed"

\* C9: after load() of a parseable file every record has a priority in {High, Medium,
\* Low}: a record whose priority is missing or is another value comes back "Medium".
C9_LoadedPriorityInVocabulary ==
    (last.op = "load" /\ file.kind = "json") =>
        \A i \in 1..Len(tasks) :
            /\ tasks[i].priority \in Priorities
            /\ ("priority" \notin DOMAIN file.doc[i]
                   \/ file.doc[i].priority.v \notin Priorities) =>
                  tasks[i].priority = "Medium"

\* C10: in every reachable state every record has a text that is not empty and not
\* whitespace only.
C10_TextNonEmpty ==
    \A i \in 1..Len(tasks) : strip(tasks[i].task) # <<>>

====
